---- MODULE Spec2Model ----
(***************************************************************************)
(* TaskManager (category-aware variant): the category-suggestion pipeline  *)
(* (suggestCategories, buildCategoryData, extractKeywords,                 *)
(* calculateSimilarity, getEditDistance, calculateKeywordUniqueness) and   *)
(* the task / category store operations around it.                         *)
(*                                                                         *)
(* A JavaScript string is a sequence of one-character strings.  A number   *)
(* that the code keeps as a double is kept exactly: a similarity is a      *)
(* fraction [num, den], a score is a whole number of 1/ScoreScale units    *)
(* (or NaN).                                                               *)
(***************************************************************************)
EXTENDS Integers, Sequences, FiniteSets, TLC

VARIABLES
    tasks,                      \* this.tasks, newest first
    categories,                 \* this.categories
    storage,                    \* localStorage: tasks, categories, theme
    taskInput,                  \* taskInput.value
    categorySuggestions,        \* the suggestion panel: style.display, chips
    objectTaskCount,            \* inherited objects given a taskCount property
    suggested,                  \* <<outcome of the last suggestCategories>>
    suggestCalls,               \* suggestCategories calls made on drawn inputs
    builtData,                  \* <<result of buildCategoryData()>>
    str1, str2,                 \* calculateSimilarity: the two arguments
    similarity,                 \* <<result>> of calculateSimilarity(str1, str2)
    similaritySwapped,          \* <<result>> of calculateSimilarity(str2, str1)
    kwText, kwResult,           \* extractKeywords: argument and result
    categorySelect,             \* categorySelect.value
    newCategoryInput,           \* newCategoryInput.value
    currentFilter,              \* this.currentFilter
    currentTheme,               \* this.currentTheme
    taskList,                   \* the task list: style.display, listeners
    now,                        \* the last value Date.now() returned
    suggestionTimeout,          \* this.suggestionTimeout: a timer id, 0 for null
    timers,                     \* the pending timers: id, milliseconds left
    timerIds,                   \* setTimeout calls made so far
    debounce,                   \* time since the last input event, the events
                                \* of the burst it closes, the calls since
    lastCall                    \* the addTask or deleteCategory call just made,
                                \* with the tasks and categories it found

storeVars == <<tasks, categories, storage>>

panelVars == <<taskInput, categorySuggestions, objectTaskCount, suggested,
               suggestCalls, builtData>>

simVars == <<str1, str2, similarity, similaritySwapped>>

kwVars == <<kwText, kwResult>>

formVars == <<categorySelect, newCategoryInput>>

viewVars == <<currentFilter, currentTheme, taskList>>

timerVars == <<suggestionTimeout, timers, timerIds, debounce>>

pageVars == <<formVars, viewVars, now, lastCall, timerVars>>

vars == <<storeVars, panelVars, simVars, kwVars, pageVars>>

(***************************************************************************)
(* Characters and strings                                                  *)
(***************************************************************************)
LowerLetters ==
    {"a","b","c","d","e","f","g","h","i","j","k","l","m",
     "n","o","p","q","r","s","t","u","v","w","x","y","z"}

Digits == {"0","1","2","3","4","5","6","7","8","9"}

\* \s of the split pattern, as far as a text input can hold it
Whitespace == {" ", "\t"}

\* the pattern [\s,.:;!?()-] of extractKeywords
Delimiters == Whitespace \cup {",", ".", ":", ";", "!", "?", "(", ")", "-"}

UpperSeq == <<"A","B","C","D","E","F","G","H","I","J","K","L","M",
              "N","O","P","Q","R","S","T","U","V","W","X","Y","Z">>

LowerSeq == <<"a","b","c","d","e","f","g","h","i","j","k","l","m",
              "n","o","p","q","r","s","t","u","v","w","x","y","z">>

\* String.prototype.toLowerCase on one character
ToLowerChar(c) ==
    IF \E i \in 1..Len(UpperSeq) : UpperSeq[i] = c
    THEN LowerSeq[CHOOSE i \in 1..Len(UpperSeq) : UpperSeq[i] = c]
    ELSE c

ToLowerCase(s) == [i \in 1..Len(s) |-> ToLowerChar(s[i])]

RECURSIVE TrimStart(_)
TrimStart(s) ==
    IF s # <<>> /\ Head(s) \in Whitespace THEN TrimStart(Tail(s)) ELSE s

RECURSIVE TrimEnd(_)
TrimEnd(s) ==
    IF s # <<>> /\ s[Len(s)] \in Whitespace
    THEN TrimEnd(SubSeq(s, 1, Len(s) - 1))
    ELSE s

\* String.prototype.trim
Trim(s) == TrimEnd(TrimStart(s))

\* String.prototype.includes
Includes(s, sub) ==
    \E i \in 0..(Len(s) - Len(sub)) : SubSeq(s, i + 1, i + Len(sub)) = sub

RECURSIVE SelectSeqBy(_, _)
\* Array.prototype.filter with the predicate given as a set of kept values
SelectSeqBy(s, keep) ==
    IF s = <<>> THEN <<>>
    ELSE IF Head(s) \in keep
         THEN <<Head(s)>> \o SelectSeqBy(Tail(s), keep)
         ELSE SelectSeqBy(Tail(s), keep)

(***************************************************************************)
(* extractKeywords                                                         *)
(***************************************************************************)
StopWords ==
    { <<"t","h","e">>, <<"i","s">>, <<"a","t">>, <<"w","h","i","c","h">>,
      <<"o","n">>, <<"a">>, <<"a","n">>, <<"a","s">>, <<"a","r","e">>,
      <<"w","a","s">>, <<"w","e","r","e">>, <<"b","e">>, <<"b","e","e","n">>,
      <<"b","e","i","n","g">>, <<"h","a","v","e">>, <<"h","a","s">>,
      <<"h","a","d">>, <<"d","o">>, <<"d","o","e","s">>, <<"d","i","d">>,
      <<"w","i","l","l">>, <<"w","o","u","l","d">>, <<"c","o","u","l","d">>,
      <<"s","h","o","u","l","d">>, <<"m","a","y">>, <<"m","i","g","h","t">>,
      <<"c","a","n">>, <<"t","o">>, <<"f","o","r">>, <<"o","f">>, <<"i","n">>,
      <<"b","y">>, <<"w","i","t","h">>, <<"f","r","o","m">>,
      <<"a","b","o","u","t">>, <<"i","n","t","o">>,
      <<"t","h","r","o","u","g","h">>, <<"d","u","r","i","n","g">>,
      <<"b","e","f","o","r","e">>, <<"a","f","t","e","r">>,
      <<"a","b","o","v","e">>, <<"b","e","l","o","w">>,
      <<"b","e","t","w","e","e","n">>, <<"u","n","d","e","r">>,
      <<"a","g","a","i","n">>, <<"f","u","r","t","h","e","r">>,
      <<"t","h","e","n">>, <<"o","n","c","e">>, <<"h","e","r","e">>,
      <<"t","h","e","r","e">>, <<"w","h","e","n">>, <<"w","h","e","r","e">>,
      <<"w","h","y">>, <<"h","o","w">>, <<"a","l","l">>, <<"b","o","t","h">>,
      <<"e","a","c","h">>, <<"f","e","w">>, <<"m","o","r","e">>,
      <<"m","o","s","t">>, <<"o","t","h","e","r">>, <<"s","o","m","e">>,
      <<"s","u","c","h">>, <<"n","o">>, <<"n","o","r">>, <<"n","o","t">>,
      <<"o","n","l","y">>, <<"o","w","n">>, <<"s","a","m","e">>, <<"s","o">>,
      <<"t","h","a","n">>, <<"t","o","o">>, <<"v","e","r","y">>,
      <<"t","h","i","s">>, <<"t","h","a","t">>, <<"t","h","e","s","e">>,
      <<"t","h","o","s","e">>, <<"w","h","a","t">>, <<"j","u","s","t">>,
      <<"g","e","t">>, <<"n","e","e","d">>, <<"m","a","k","e">>,
      <<"d","o","n","e">> }

RECURSIVE SplitScan(_, _, _, _)
\* text.split(/[\s,.:;!?()-]+/): a run of delimiters ends the current
\* fragment once; a leading or trailing run leaves an empty fragment
SplitScan(rest, cur, acc, prevDelim) ==
    IF rest = <<>> THEN Append(acc, cur)
    ELSE IF Head(rest) \in Delimiters
         THEN IF prevDelim
              THEN SplitScan(Tail(rest), cur, acc, TRUE)
              ELSE SplitScan(Tail(rest), <<>>, Append(acc, cur), TRUE)
         ELSE SplitScan(Tail(rest), Append(cur, Head(rest)), acc, FALSE)

SplitDelimiters(text) == SplitScan(text, <<>>, <<>>, FALSE)

\* word.replace(/[^a-z0-9]/g, '')
StripWord(word) == SelectSeqBy(word, LowerLetters \cup Digits)

RECURSIVE FilterWords(_)
\* .filter(word => word.length > 2).filter(word => !stopWords.has(word))
FilterWords(words) ==
    IF words = <<>> THEN <<>>
    ELSE IF Len(Head(words)) > 2 /\ Head(words) \notin StopWords
         THEN <<Head(words)>> \o FilterWords(Tail(words))
         ELSE FilterWords(Tail(words))

\* extractKeywords keeping words of length 2 (>= 2 written for > 2)
extractKeywordsMinLen2(text) ==
    LET frags == SplitDelimiters(text)
        words == [i \in 1..Len(frags) |-> StripWord(frags[i])]
        IsKept(w) == Len(w) >= 2 /\ w \notin StopWords
    IN  SelectSeq(words, IsKept)

extractKeywords(text) ==
    LET frags == SplitDelimiters(text)
    IN  FilterWords([i \in 1..Len(frags) |-> StripWord(frags[i])])

(***************************************************************************)
(* getEditDistance, calculateSimilarity                                    *)
(***************************************************************************)
Min3(a, b, c) ==
    IF a <= b /\ a <= c THEN a ELSE IF b <= c THEN b ELSE c

RECURSIVE MatrixRow(_, _, _, _, _)
\* row i of the matrix, filled left to right from row i-1 (prev); cell j of a
\* row is at index j + 1
MatrixRow(prev, cur, i, s1, s2) ==
    LET j == Len(cur)
    IN  IF j > Len(s1) THEN cur
        ELSE MatrixRow(prev,
                 Append(cur,
                     IF s2[i] = s1[j]
                     THEN prev[j]
                     ELSE Min3(prev[j] + 1, cur[j] + 1, prev[j + 1] + 1)),
                 i, s1, s2)

RECURSIVE MatrixRows(_, _, _, _)
MatrixRows(prev, i, s1, s2) ==
    IF i > Len(s2) THEN prev
    ELSE MatrixRows(MatrixRow(prev, <<i>>, i, s1, s2), i + 1, s1, s2)

\* getEditDistance with the first row left at 0 (matrix[0][j] = j dropped)
getEditDistanceRow0(s1, s2) ==
    LET row0 == [j \in 1..(Len(s1) + 1) |-> 0]
    IN  MatrixRows(row0, 1, s1, s2)[Len(s1) + 1]

\* matrix[str2.length][str1.length]
getEditDistance(s1, s2) ==
    LET row0 == [j \in 1..(Len(s1) + 1) |-> j - 1]
    IN  MatrixRows(row0, 1, s1, s2)[Len(s1) + 1]

\* calculateSimilarity taking its first argument for the longer string
calculateSimilarityFirstLonger(s1, s2) ==
    IF Len(s1) = 0
    THEN [num |-> 1, den |-> 1]
    ELSE [num |-> Len(s1) - getEditDistance(s1, s2), den |-> Len(s1)]

\* the double (longer.length - editDistance) / longer.length as a fraction
calculateSimilarity(s1, s2) ==
    LET longer  == IF Len(s1) > Len(s2) THEN s1 ELSE s2
        shorter == IF Len(s1) > Len(s2) THEN s2 ELSE s1
    IN  IF Len(longer) = 0
        THEN [num |-> 1, den |-> 1]
        ELSE [num |-> Len(longer) - getEditDistance(longer, shorter),
              den |-> Len(longer)]

(***************************************************************************)
(* JavaScript values of the suggestion pipeline                            *)
(***************************************************************************)
\* task.category of a task without category (category || null)
Null == <<"<null>">>

\* Property names every object literal {} inherits from Object.prototype:
\* for these data[name] and keywords[name] are truthy although never set.
ObjectPrototypeKeys ==
    { <<"c","o","n","s","t","r","u","c","t","o","r">>,
      <<"t","o","S","t","r","i","n","g">>,
      <<"v","a","l","u","e","O","f">>,
      <<"_","_","p","r","o","t","o","_","_">>,
      <<"h","a","s","O","w","n","P","r","o","p","e","r","t","y">> }

\* A score is a whole number of 1/ScoreScale units; ScoreScale is a multiple
\* of 2 and of every keyword-uniqueness denominator up to 10.
ScoreScale == 5040 * 1000

\* a number of the scoring: units / ScoreScale, or NaN
Num(units) == [nan |-> FALSE, units |-> units]

NaN == [nan |-> TRUE, units |-> 0]

Plus(a, b) == IF a.nan \/ b.nan THEN NaN ELSE Num(a.units + b.units)

\* a > b of two numbers: false when either is NaN
GreaterThan(a, b) == ~a.nan /\ ~b.nan /\ a.units > b.units

\* Math.log(taskCount + 1) * 0.5 in score units, for taskCount = 0, 1, ...
LogHalfTable ==
    <<0, 1746730, 2768502, 3493461, 4055783, 4515233, 4903693, 5240192,
      5537005>>

popularityBoost(taskCount) == Num(LogHalfTable[taskCount + 1])

\* A value of a keywords table: the number n, or (isString) the text of the
\* inherited function followed by n digits 1, which is what (f || 0) + 1
\* makes of an inherited property.
Count(n) == [isString |-> FALSE, n |-> n]

FunctionText(n) == [isString |-> TRUE, n |-> n]

\* keywords[word] || 0, then + 1
IncrementKeyword(keywords, word) ==
    IF word \in DOMAIN keywords
    THEN [keywords[word] EXCEPT !.n = @ + 1]
    ELSE IF word \in ObjectPrototypeKeys THEN FunctionText(1) ELSE Count(1)

\* whether keywords[word] is truthy: an own entry, or an inherited property
HasKeyword(keywords, word) ==
    word \in DOMAIN keywords \/ word \in ObjectPrototypeKeys

\* keywords[word] as a factor of a product: a count, or NaN for a string or
\* a function
KeywordNumber(keywords, word) ==
    IF word \in DOMAIN keywords /\ ~keywords[word].isString
    THEN Num(keywords[word].n)
    ELSE NaN

EmptyProfile == [keywords |-> <<>>, taskCount |-> 0]

(***************************************************************************)
(* buildCategoryData                                                       *)
(***************************************************************************)
RECURSIVE CountWords(_, _)
\* words.forEach(word => keywords[word] = (keywords[word] || 0) + 1)
CountWords(keywords, words) ==
    IF words = <<>> THEN keywords
    ELSE LET w == Head(words)
             v == IncrementKeyword(keywords, w)
         IN  CountWords(
                 [k \in DOMAIN keywords \cup {w} |->
                     IF k = w THEN v ELSE keywords[k]],
                 Tail(words))

\* One task of the forEach.  acc.data is the object built so far, acc.threw
\* whether a TypeError ended the loop, acc.builtins the inherited objects
\* that were given a taskCount property.
BuildStep(acc, task) ==
    LET c     == task.category
        words == extractKeywords(ToLowerCase(task.text))
    IN  IF acc.threw \/ c = Null \/ c = <<>> THEN acc
        ELSE IF c \notin DOMAIN acc.data /\ c \in ObjectPrototypeKeys
        THEN \* data[c] is inherited: no entry is made, taskCount++ lands on
             \* the inherited object, whose keywords is undefined
             [acc EXCEPT !.builtins = @ \cup {c},
                         !.threw = (words # <<>>)]
        ELSE LET old == IF c \in DOMAIN acc.data
                        THEN acc.data[c] ELSE EmptyProfile
                 new == [keywords  |-> CountWords(old.keywords, words),
                         taskCount |-> old.taskCount + 1]
             IN  [acc EXCEPT !.data =
                     [k \in DOMAIN acc.data \cup {c} |->
                         IF k = c THEN new ELSE acc.data[k]]]

RECURSIVE BuildLoop(_, _)
BuildLoop(acc, taskSeq) ==
    IF taskSeq = <<>> THEN acc
    ELSE BuildLoop(BuildStep(acc, Head(taskSeq)), Tail(taskSeq))

buildCategoryData(taskSeq) ==
    BuildLoop([data |-> <<>>, threw |-> FALSE, builtins |-> {}], taskSeq)

(***************************************************************************)
(* calculateKeywordUniqueness                                              *)
(***************************************************************************)
categoriesWithKeyword(keyword, categoryData) ==
    Cardinality({c \in DOMAIN categoryData :
                    HasKeyword(categoryData[c].keywords, keyword)})

\* 1, or 1 / categoriesWithKeyword, as a fraction
calculateKeywordUniqueness(keyword, categoryData) ==
    LET n == categoriesWithKeyword(keyword, categoryData)
    IN  IF n = 0 THEN [num |-> 1, den |-> 1] ELSE [num |-> 1, den |-> n]

(***************************************************************************)
(* suggestCategories: the score of one category                            *)
(***************************************************************************)
Tag(kind) == [kind |-> kind, pct |-> 0, word |-> <<>>]

SimilarTag(pct) == [kind |-> "% similar", pct |-> pct, word |-> <<>>]

WordTag(w) == [kind |-> "word", pct |-> 0, word |-> w]

\* 1. direct category name match
NameMatch(text, categoryLower) ==
    IF text = categoryLower
    THEN [score |-> Num(50 * ScoreScale), matches |-> <<Tag("exact match")>>]
    ELSE IF Includes(text, categoryLower)
    THEN [score |-> Num(30 * ScoreScale),
          matches |-> <<Tag("contains category")>>]
    ELSE IF Includes(categoryLower, text)
    THEN [score |-> Num(20 * ScoreScale),
          matches |-> <<Tag("partial category")>>]
    ELSE [score |-> Num(0), matches |-> <<>>]

\* 2. fuzzy match on the category name: similarity > 0.6 adds
\* Math.floor(similarity * 15)
FuzzyScore(sim) ==
    IF 5 * sim.num > 3 * sim.den
    THEN [score |-> Num(((sim.num * 15) \div sim.den) * ScoreScale),
          matches |-> <<SimilarTag((sim.num * 100) \div sim.den)>>]
    ELSE [score |-> Num(0), matches |-> <<>>]

FuzzyMatch(text, categoryLower) ==
    FuzzyScore(calculateSimilarity(text, categoryLower))

\* frequency * uniqueness * 3
KeywordTerm(freq, uniq) ==
    IF freq.nan THEN NaN
    ELSE Num((freq.units * uniq.num * 3 * ScoreScale) \div uniq.den)

RECURSIVE KeywordMatch(_, _, _, _)
\* 3. inputWords.forEach: frequency * uniqueness * 3 for every input word
\* the category's keywords hold, and the word as a tag
KeywordMatch(inputWords, keywords, categoryData, acc) ==
    IF inputWords = <<>> THEN acc
    ELSE IF HasKeyword(keywords, Head(inputWords))
    THEN KeywordMatch(Tail(inputWords), keywords, categoryData,
             [score   |-> Plus(acc.score,
                              KeywordTerm(
                                  KeywordNumber(keywords, Head(inputWords)),
                                  calculateKeywordUniqueness(
                                      Head(inputWords), categoryData))),
              matches |-> Append(acc.matches, WordTag(Head(inputWords)))])
    ELSE KeywordMatch(Tail(inputWords), keywords, categoryData, acc)

RECURSIVE SumOver(_, _, _)
\* the sum over a set of (keyword, index of input word) pairs
SumOver(pairs, keywords, acc) ==
    IF pairs = {} THEN acc
    ELSE LET p    == CHOOSE q \in pairs : TRUE
             freq == KeywordNumber(keywords, p[1])
             term == IF freq.nan THEN NaN
                     ELSE Num((freq.units * ScoreScale) \div 2)
         IN  SumOver(pairs \ {p}, keywords, Plus(acc, term))

\* 4. partial word matching: keywords[keyword] * 0.5 for every own keyword
\* and every input word longer than 3 that the keyword includes
PartialWordMatch(inputWords, keywords) ==
    SumOver({<<k, i>> \in (DOMAIN keywords) \X (1..Len(inputWords)) :
                Len(inputWords[i]) > 3 /\ Includes(k, inputWords[i])},
            keywords, Num(0))

\* Math.min(100, Math.floor((score / 50) * 100)); 29 / 50 * 100 is
\* 57.99999999999999 in doubles
Confidence(score) ==
    IF score.nan THEN NaN
    ELSE IF score.units = 29 * ScoreScale THEN Num(57)
    ELSE LET pct == (2 * score.units) \div ScoreScale
         IN  Num(IF pct > 100 THEN 100 ELSE pct)

RECURSIVE Dedupe(_, _)
\* [...new Set(matches)]: the first occurrence of each value, in order
Dedupe(s, seen) ==
    IF s = <<>> THEN <<>>
    ELSE IF Head(s) \in seen THEN Dedupe(Tail(s), seen)
    ELSE <<Head(s)>> \o Dedupe(Tail(s), seen \cup {Head(s)})

\* slice(0, n)
Slice0(s, n) == SubSeq(s, 1, IF Len(s) < n THEN Len(s) ELSE n)

\* categoryData[category] || { keywords: {}, taskCount: 0 } is an inherited
\* object without keywords for a category name of Object.prototype
ProfileIsBuiltin(category, categoryData) ==
    category \notin DOMAIN categoryData /\ category \in ObjectPrototypeKeys

\* the object the callback returns
Scored(category, score, matches) ==
    [category   |-> category,
     score      |-> score,
     confidence |-> Confidence(score),
     matches    |-> Slice0(Dedupe(matches, {}), 3)]

\* the sum of the five parts of the score, and the tags in push order
ScoreParts(category, name, fuzzy, kw, part, boost) ==
    Scored(category,
           Plus(Plus(Plus(Plus(name.score, fuzzy.score), kw.score), part),
                boost),
           name.matches \o fuzzy.matches \o kw.matches)

ScoreWith(category, categoryLower, data, text, inputWords, categoryData) ==
    ScoreParts(category,
               NameMatch(text, categoryLower),
               FuzzyMatch(text, categoryLower),
               KeywordMatch(inputWords, data.keywords, categoryData,
                            [score |-> Num(0), matches |-> <<>>]),
               PartialWordMatch(inputWords, data.keywords),
               popularityBoost(data.taskCount))

\* the callback of this.categories.map for a category with a profile or the
\* empty profile
ScoreCategory(category, text, inputWords, categoryData) ==
    ScoreWith(category, ToLowerCase(category),
              IF category \in DOMAIN categoryData
              THEN categoryData[category] ELSE EmptyProfile,
              text, inputWords, categoryData)

RECURSIVE InsertDescending(_, _)
\* x goes behind every entry whose score is not smaller: equal scores keep
\* the order in which they are inserted
InsertDescending(sorted, x) ==
    IF sorted = <<>> THEN <<x>>
    ELSE IF Head(sorted).score.units >= x.score.units
         THEN <<Head(sorted)>> \o InsertDescending(Tail(sorted), x)
         ELSE <<x>> \o sorted

RECURSIVE SortDescending(_, _)
\* .sort((a, b) => b.score - a.score), a stable sort
SortDescending(sorted, rest) ==
    IF rest = <<>> THEN sorted
    ELSE SortDescending(InsertDescending(sorted, Head(rest)), Tail(rest))

\* .filter(s => s.score > 2)
FilterScores(scores) ==
    LET Strong(s) == GreaterThan(s.score, Num(2 * ScoreScale))
    IN  SelectSeq(scores, Strong)

\* TopSuggestions keeping five entries (slice(0, 5))
TopSuggestionsFive(scores) ==
    Slice0(SortDescending(<<>>, FilterScores(scores)), 5)

\* scores.filter(...).sort(...).slice(0, 4)
TopSuggestions(scores) ==
    Slice0(SortDescending(<<>>, FilterScores(scores)), 4)

\* The outcome of suggestCategories on text = taskInput.value trimmed and
\* lower-cased: "hide" (early exit or no suggestion), "show" with the
\* suggestions, or "throw" (a TypeError leaves the panel as it is).
Outcome(scores, top, builtins) ==
    [outcome |-> IF top = <<>> THEN "hide" ELSE "show",
     scores |-> scores, suggestions |-> top, builtins |-> builtins]

Ranked(scores, builtins) == Outcome(scores, TopSuggestions(scores), builtins)

\* SuggestWith leaving early only below two characters (< 2 for < 3)
SuggestWithMinLen2(text, inputWords, categoryList, built) ==
    IF Len(text) < 2 \/ Len(categoryList) = 0
    THEN [outcome |-> "hide", scores |-> <<>>, suggestions |-> <<>>,
          builtins |-> {}]
    ELSE IF built.threw
            \/ \E i \in 1..Len(categoryList) :
                   ProfileIsBuiltin(categoryList[i], built.data)
    THEN [outcome |-> "throw", scores |-> <<>>, suggestions |-> <<>>,
          builtins |-> built.builtins]
    ELSE Ranked([i \in 1..Len(categoryList) |->
                    ScoreCategory(categoryList[i], text, inputWords,
                                  built.data)],
                built.builtins)

\* the early exit, the TypeError of a category without keywords, or the
\* ranked scores
SuggestWith(text, inputWords, categoryList, built) ==
    IF Len(text) < 3 \/ Len(categoryList) = 0
    THEN [outcome |-> "hide", scores |-> <<>>, suggestions |-> <<>>,
          builtins |-> {}]
    ELSE IF built.threw
            \/ \E i \in 1..Len(categoryList) :
                   ProfileIsBuiltin(categoryList[i], built.data)
    THEN [outcome |-> "throw", scores |-> <<>>, suggestions |-> <<>>,
          builtins |-> built.builtins]
    ELSE Ranked([i \in 1..Len(categoryList) |->
                    ScoreCategory(categoryList[i], text, inputWords,
                                  built.data)],
                built.builtins)

\* the calculateKeywordUniqueness calls of one category: one per input
\* word its keywords hold, with the count the call arrives at
UniquenessCallsOf(category, data, inputWords, categoryData) ==
    {[category |-> category, keyword |-> inputWords[k],
      categoriesWithKeyword |->
          categoriesWithKeyword(inputWords[k], categoryData)] :
        k \in {j \in 1..Len(inputWords) :
                  HasKeyword(data.keywords, inputWords[j])}}

\* the calculateKeywordUniqueness calls suggestCategories makes: none on the
\* early exit or when buildCategoryData throws, else those of the
\* categories in front of the first one whose scoring throws
UniquenessCalls(text, inputWords, categoryList, built) ==
    IF Len(text) < 3 \/ Len(categoryList) = 0 \/ built.threw THEN {}
    ELSE UNION {UniquenessCallsOf(
                    categoryList[i],
                    IF categoryList[i] \in DOMAIN built.data
                    THEN built.data[categoryList[i]] ELSE EmptyProfile,
                    inputWords, built.data) :
                  i \in {j \in 1..Len(categoryList) :
                            \A k \in 1..j :
                                ~ProfileIsBuiltin(categoryList[k],
                                                  built.data)}}

SuggestOn(text, categoryList, taskSeq) ==
    SuggestWith(text, extractKeywords(text), categoryList,
                buildCategoryData(taskSeq))

suggestCategoriesResult(inputValue, categoryList, taskSeq) ==
    SuggestOn(ToLowerCase(Trim(inputValue)), categoryList, taskSeq)

(***************************************************************************)
(* The page: category select, task form, task list                         *)
(***************************************************************************)
Range(s) == {s[i] : i \in 1..Len(s)}

\* escapeHTML leaves the double quote alone, so inside value="..." and
\* data-category="..." the value ends at the first double quote
RECURSIVE AttributeValue(_)
AttributeValue(s) ==
    IF s = <<>> \/ Head(s) = "\"" THEN <<>>
    ELSE <<Head(s)>> \o AttributeValue(Tail(s))

\* <option value="__new__">
NewOption == <<"_","_","n","e","w","_","_">>

\* task.category || 'Uncategorized'
wUncategorized == <<"U","n","c","a","t","e","g","o","r","i","z","e","d">>

\* renderCategoryOptions: the values of the options, in document order
OptionValues(categoryList) ==
    <<<<>>>> \o
    [i \in 1..Len(categoryList) |-> AttributeValue(categoryList[i])] \o
    <<NewOption>>

\* this.categorySelect.value = value: a value no option carries leaves the
\* select without selection, and its value is then ''
SetSelectValue(categoryList, value) ==
    IF value \in Range(OptionValues(categoryList)) THEN value ELSE <<>>

MinTaskLength == 3

MaxTaskLength == 200

\* validateTaskInput(text).valid
validateTaskInput(text, taskSeq) ==
    /\ text # <<>>
    /\ Len(text) >= MinTaskLength
    /\ Len(text) <= MaxTaskLength
    /\ \E i \in 1..Len(text) : text[i] \notin Whitespace
    /\ ~ \E i \in 1..Len(taskSeq) :
            ToLowerCase(taskSeq[i].text) = ToLowerCase(text)

getFilteredTasks(taskSeq, filter) ==
    IF filter = "active"
    THEN SelectSeq(taskSeq, LAMBDA t : ~t.completed)
    ELSE IF filter = "completed"
    THEN SelectSeq(taskSeq, LAMBDA t : t.completed)
    ELSE taskSeq

\* groupTasksByCategory: the keys of the groups; groups[category] of an
\* inherited name is no array, and groups[category].push(task) is then a
\* TypeError
groupTasksByCategory(taskSeq) ==
    LET keys == {IF taskSeq[i].category \in {Null, <<>>}
                 THEN wUncategorized ELSE taskSeq[i].category :
                    i \in 1..Len(taskSeq)}
    IN  [threw |-> keys \cap ObjectPrototypeKeys # {}, keys |-> keys]

\* the order of characters under localeCompare, as far as names are drawn:
\* space and punctuation before digits before letters
CollationOrder == <<" ", "_", "\"">> \o
                  <<"0","1","2","3","4","5","6","7","8","9">> \o LowerSeq

CollationRank(c) ==
    CHOOSE i \in 1..Len(CollationOrder) : CollationOrder[i] = ToLowerChar(c)

RECURSIVE ComparePrimary(_, _)
\* the strings compared character by character, case aside
ComparePrimary(a, b) ==
    IF a = <<>> THEN (IF b = <<>> THEN 0 ELSE -1)
    ELSE IF b = <<>> THEN 1
    ELSE IF CollationRank(Head(a)) < CollationRank(Head(b)) THEN -1
    ELSE IF CollationRank(Head(a)) > CollationRank(Head(b)) THEN 1
    ELSE ComparePrimary(Tail(a), Tail(b))

RECURSIVE CompareCase(_, _)
\* strings equal case aside: lower case first at the first difference
CompareCase(a, b) ==
    IF a = <<>> \/ b = <<>> THEN 0
    ELSE IF Head(a) = Head(b) THEN CompareCase(Tail(a), Tail(b))
    ELSE IF Head(a) = ToLowerChar(Head(a)) THEN -1 ELSE 1

\* a.localeCompare(b)
localeCompare(a, b) ==
    IF ComparePrimary(a, b) # 0 THEN ComparePrimary(a, b)
    ELSE CompareCase(a, b)

\* `[data-category="${category}"] .delete-category-btn` is a selector only
\* when the name holds no double quote
ValidSelector(category) == AttributeValue(category) = category

\* render: the category groups that get a deleteCategory listener, taken in
\* sorted order; querySelector throws a SyntaxError at the first name that
\* makes no selector, and the groups after it get none
DeleteCategoryListeners(keys) ==
    {k \in keys \ {wUncategorized} :
        \A other \in keys \ {wUncategorized} :
            ~ValidSelector(other) =>
                /\ other # k
                /\ localeCompare(k, other) < 0}

\* the task list before the first render
EmptyTaskList == [display |-> "", taskIds |-> <<>>, deleteCategory |-> {}]

\* render(): the list is hidden when no task passes the filter; otherwise it
\* is shown, rebuilt, and given one group of listeners per filtered task
\* (on the first element carrying the task's id) and a deleteCategory
\* listener per category group.
\* A TypeError in groupTasksByCategory leaves the list shown with the
\* elements and listeners it had.
render(taskSeq, filter, list) ==
    LET filtered == getFilteredTasks(taskSeq, filter)
        groups == groupTasksByCategory(filtered)
    IN  IF filtered = <<>> THEN [list EXCEPT !.display = "none"]
        ELSE IF groups.threw THEN [list EXCEPT !.display = "block"]
        ELSE [display        |-> "block",
              taskIds        |-> [i \in 1..Len(filtered) |-> filtered[i].id],
              deleteCategory |-> DeleteCategoryListeners(groups.keys)]

RECURSIVE JSONescape(_)
\* JSON.stringify of a string, between its quotes: the double quote and the
\* backslash get a backslash in front
JSONescape(s) ==
    IF s = <<>> THEN <<>>
    ELSE (IF Head(s) \in {"\"", "\\"} THEN <<"\\", Head(s)>> ELSE <<Head(s)>>)
         \o JSONescape(Tail(s))

JSONstring(s) == <<"\"">> \o JSONescape(s) \o <<"\"">>

RECURSIVE JSONunescape(_)
JSONunescape(s) ==
    IF s = <<>> THEN <<>>
    ELSE IF Head(s) = "\\" /\ Len(s) >= 2
         THEN <<s[2]>> \o JSONunescape(Tail(Tail(s)))
         ELSE <<Head(s)>> \o JSONunescape(Tail(s))

\* JSON.parse of a string literal
JSONparseString(literal) == JSONunescape(SubSeq(literal, 2, Len(literal) - 1))

JSONnull == <<"n","u","l","l">>

\* JSON.stringify(this.tasks): every task with its strings as literals and
\* a null category as null; numbers and booleans are written as they are
JSONstringifyTasks(taskSeq) ==
    [i \in 1..Len(taskSeq) |->
        [taskSeq[i] EXCEPT
            !.text = JSONstring(@),
            !.category = IF @ = Null THEN JSONnull ELSE JSONstring(@)]]

JSONparseTasks(text) ==
    [i \in 1..Len(text) |->
        [text[i] EXCEPT
            !.text = JSONparseString(@),
            !.category = IF @ = JSONnull THEN Null ELSE JSONparseString(@)]]

\* JSON.stringify(this.categories)
JSONstringifyCategories(categoryList) ==
    [i \in 1..Len(categoryList) |-> JSONstring(categoryList[i])]

JSONparseCategories(text) == [i \in 1..Len(text) |-> JSONparseString(text[i])]

\* saveTasks(): the 'tasks' entry of localStorage
saveTasks(taskSeq) == <<JSONstringifyTasks(taskSeq)>>

\* saveCategories(): the 'categories' entry of localStorage
saveCategories(categoryList) == <<JSONstringifyCategories(categoryList)>>

\* loadTasks()
loadTasks(stored) ==
    IF stored.tasks = <<>> THEN <<>> ELSE JSONparseTasks(stored.tasks[1])

\* loadCategories()
loadCategories(stored) ==
    IF stored.categories = <<>> THEN <<>>
    ELSE JSONparseCategories(stored.categories[1])

\* loadTheme()
loadTheme(stored) ==
    IF stored.theme = <<>> \/ stored.theme[1] = "" THEN "default"
    ELSE stored.theme[1]

\* the last operation was neither addTask nor deleteCategory
NoCall ==
    [op |-> "", category |-> <<>>, confirmed |-> FALSE, selected |-> <<>>,
     tasks |-> <<>>, categories |-> <<>>]

DebounceDelay == 300

\* no input event yet: the last one is taken to be long ago
NoInput ==
    [sinceInput |-> DebounceDelay, burst |-> 0, calls |-> 0,
     calledAfter |-> DebounceDelay]

\* the page after new TaskManager(): init() has rendered the loaded tasks
PageLoaded ==
    /\ suggestionTimeout = 0
    /\ timers = {}
    /\ timerIds = 0
    /\ debounce = NoInput
    /\ categorySelect = <<>>
    /\ newCategoryInput = <<>>
    /\ currentFilter = "all"
    /\ currentTheme = loadTheme(storage)
    /\ taskList = render(tasks, "all", EmptyTaskList)
    /\ now = 0
    /\ lastCall = NoCall

(***************************************************************************)
(* Calls of the pure functions on drawn arguments                          *)
(***************************************************************************)
MaxStrLen == 3

SimAlphabet == {"a", "b", "c"}

RECURSIVE StringsUpTo(_, _)
StringsUpTo(alphabet, n) ==
    IF n = 0 THEN {<<>>}
    ELSE LET shorter == StringsUpTo(alphabet, n - 1)
         IN  shorter \cup {Append(s, c) : s \in shorter, c \in alphabet}

SimStrings == StringsUpTo(SimAlphabet, MaxStrLen)

MaxPieces == 4

\* fragments a text is put together from: a stop word, keywords, a short
\* word, a digit, a character outside [a-z0-9], and three delimiters
KwPieces ==
    { <<"t","h","e">>, <<"m","i","l","k">>, <<"a","b">>, <<"9">>, <<"#">>,
      <<" ">>, <<",">>, <<"-">> }

RECURSIVE TextsUpTo(_)
TextsUpTo(n) ==
    IF n = 0 THEN {<<>>}
    ELSE LET shorter == TextsUpTo(n - 1)
         IN  shorter \cup {t \o p : t \in shorter, p \in KwPieces}

KwTexts == TextsUpTo(MaxPieces)

\* no call made yet: the results are empty
SimIdle ==
    str1 = <<>> /\ str2 = <<>> /\ similarity = <<>> /\ similaritySwapped = <<>>

KwIdle == kwText = <<>> /\ kwResult = <<>>

\* the application right after construction on an empty localStorage
AppFresh ==
    /\ tasks = <<>>
    /\ categories = <<>>
    /\ storage = [tasks |-> <<>>, categories |-> <<>>, theme |-> <<>>]
    /\ taskInput = <<>>
    /\ categorySuggestions = [display |-> "", chips |-> <<>>]
    /\ objectTaskCount = {}
    /\ suggested = <<>>
    /\ suggestCalls = 0
    /\ builtData = <<>>

InitSim ==
    /\ str1 \in SimStrings
    /\ str2 \in SimStrings
    /\ similarity = <<>>
    /\ similaritySwapped = <<>>
    /\ KwIdle
    /\ AppFresh
    /\ PageLoaded

\* this.calculateSimilarity(str1, str2)
CallCalculateSimilarity ==
    /\ similarity = <<>>
    /\ similarity' = <<calculateSimilarity(str1, str2)>>
    /\ UNCHANGED <<str1, str2, similaritySwapped, kwVars, storeVars, panelVars,
                   pageVars>>

\* this.calculateSimilarity(str2, str1)
CallCalculateSimilaritySwapped ==
    /\ similaritySwapped = <<>>
    /\ similaritySwapped' = <<calculateSimilarity(str2, str1)>>
    /\ UNCHANGED <<str1, str2, similarity, kwVars, storeVars, panelVars,
                   pageVars>>

NextSim == CallCalculateSimilarity \/ CallCalculateSimilaritySwapped

SpecSim == InitSim /\ [][NextSim]_vars

InitKw ==
    /\ kwText \in KwTexts
    /\ kwResult = <<>>
    /\ SimIdle
    /\ AppFresh
    /\ PageLoaded

\* this.extractKeywords(text)
CallExtractKeywords ==
    /\ kwResult = <<>>
    /\ kwResult' = <<extractKeywords(kwText)>>
    /\ UNCHANGED <<kwText, simVars, storeVars, panelVars, pageVars>>

NextKw == CallExtractKeywords

SpecKw == InitKw /\ [][NextKw]_vars

(***************************************************************************)
(* suggestCategories and buildCategoryData on drawn tasks, categories and  *)
(* input text                                                              *)
(***************************************************************************)
\* displaySuggestions: one chip per suggestion
Chips(suggestions) ==
    [i \in 1..Len(suggestions) |->
        [category   |-> AttributeValue(suggestions[i].category),
         label      |-> suggestions[i].category,
         confidence |-> suggestions[i].confidence,
         matches    |-> Slice0(suggestions[i].matches, 2)]]

\* suggestCategories with mapped scores sorted into this.categories
\* (Array.prototype.sort sorts in place)
suggestCategoriesSortsCategories ==
    \E r \in {suggestCategoriesResult(taskInput, categories, tasks)} :
        /\ suggested' = <<r>>
        /\ objectTaskCount' = objectTaskCount \cup r.builtins
        /\ categorySuggestions' =
              IF r.outcome = "show"
              THEN [display |-> "block", chips |-> Chips(r.suggestions)]
              ELSE IF r.outcome = "hide"
              THEN [categorySuggestions EXCEPT !.display = "none"]
              ELSE categorySuggestions
        /\ categories' =
              IF r.outcome = "show"
              THEN [i \in 1..Len(r.suggestions) |-> r.suggestions[i].category]
              ELSE categories
        /\ UNCHANGED <<tasks, storage, taskInput>>

\* the whole of suggestCategories: the early exit, the scoring, and
\* displaySuggestions or hiding the panel; a TypeError ends the call with
\* the panel as it was
suggestCategories ==
    \E r \in {suggestCategoriesResult(taskInput, categories, tasks)} :
        /\ suggested' = <<r>>
        /\ objectTaskCount' = objectTaskCount \cup r.builtins
        /\ categorySuggestions' =
              IF r.outcome = "show"
              THEN [display |-> "block", chips |-> Chips(r.suggestions)]
              ELSE IF r.outcome = "hide"
              THEN [categorySuggestions EXCEPT !.display = "none"]
              ELSE categorySuggestions
        /\ UNCHANGED <<storeVars, taskInput>>

MaxCategories == 6

MaxTasks == 2

MaxCalls == 2

wWork == <<"w","o","r","k">>

wWor == <<"w","o","r">>

wWorkCap == <<"W","o","r","k">>

wWorks == <<"w","o","r","k","s">>

wRework == <<"r","e","w","o","r","k">>

wShop == <<"s","h","o","p">>

wConstructorCap == <<"C","o","n","s","t","r","u","c","t","o","r">>

wConstructor == <<"c","o","n","s","t","r","u","c","t","o","r">>

\* category names in the order they were added
MasterCategories ==
    <<wWork, wWor, wWorkCap, wWorks, wRework, wShop, wConstructorCap,
      wConstructor>>

\* what the user has typed into the task input
InputTexts ==
    { <<" ","w","o"," ">>,
      <<" ","W","o","r","k">>,
      <<"s","h","o","e","s">>,
      <<"w","o","r","k"," ","s","h","o","e","s">>,
      wConstructor }

Task(id, text, category) ==
    [id |-> id, text |-> text, priority |-> "medium", category |-> category,
     completed |-> FALSE, createdAt |-> id]

\* stored tasks, newest first
TaskPool ==
    << Task(6, <<"w","o","r","k"," ","s","h","o","e","s">>, wShop),
       Task(5, <<"b","u","y"," ","s","h","o","e","s",","," ","s","h","o","e","s">>,
            wShop),
       Task(4, <<"f","i","x"," ","s","h","o","e","s"," ",
                 "c","o","n","s","t","r","u","c","t","o","r">>, wWorkCap),
       Task(3, <<"t","o"," ","d","o">>, wConstructor),
       Task(2, <<"f","i","x"," ","i","t">>, wConstructor),
       Task(1, <<"c","a","l","l"," ","m","o","m">>, Null) >>

RECURSIVE PickIndices(_, _)
\* the entries of s at the indices of the set picked, in the order of s
PickIndices(s, picked) ==
    IF picked = {} THEN <<>>
    ELSE LET first == CHOOSE i \in picked : \A k \in picked : i <= k
         IN  <<s[first]>> \o PickIndices(s, picked \ {first})

Sublists(s, maxLen) ==
    {PickIndices(s, picked) :
        picked \in {x \in SUBSET (1..Len(s)) : Cardinality(x) <= maxLen}}

InitSuggest ==
    /\ categories \in Sublists(MasterCategories, MaxCategories)
    /\ tasks \in {t \in Sublists(TaskPool, MaxTasks) :
                    \A i \in 1..Len(t) :
                        t[i].category \in Range(categories) \cup {Null}}
    /\ storage = [tasks |-> saveTasks(tasks),
                  categories |-> saveCategories(categories),
                  theme |-> <<>>]
    /\ taskInput \in InputTexts
    /\ categorySuggestions = [display |-> "", chips |-> <<>>]
    /\ objectTaskCount = {}
    /\ suggested = <<>>
    /\ suggestCalls = 0
    /\ builtData = <<>>
    /\ SimIdle
    /\ KwIdle
    /\ PageLoaded

\* the debounce timer's callback: this.suggestCategories()
CallSuggestCategories ==
    /\ suggestCalls < MaxCalls
    /\ suggestCalls' = suggestCalls + 1
    /\ suggestCategories
    /\ UNCHANGED <<builtData, simVars, kwVars, pageVars>>

NextSuggest == CallSuggestCategories

SpecSuggest == InitSuggest /\ [][NextSuggest]_vars

(***************************************************************************)
(* buildCategoryData on drawn task lists                                   *)
(***************************************************************************)
MaxBuildTasks == 3

RECURSIVE Arrangements(_, _)
\* the sequences of at most n different members of the set pool
Arrangements(pool, n) ==
    IF n = 0 THEN {<<>>}
    ELSE LET shorter == Arrangements(pool, n - 1)
         IN  shorter \cup
             UNION {{Append(a, x) : x \in pool \ Range(a)} : a \in shorter}

InitBuild ==
    /\ categories = MasterCategories
    /\ tasks \in Arrangements(Range(TaskPool), MaxBuildTasks)
    /\ storage = [tasks |-> saveTasks(tasks),
                  categories |-> saveCategories(categories),
                  theme |-> <<>>]
    /\ taskInput = <<>>
    /\ categorySuggestions = [display |-> "", chips |-> <<>>]
    /\ objectTaskCount = {}
    /\ suggested = <<>>
    /\ suggestCalls = 0
    /\ builtData = <<>>
    /\ SimIdle
    /\ KwIdle
    /\ PageLoaded

\* this.buildCategoryData()
CallBuildCategoryData ==
    /\ builtData = <<>>
    /\ \E built \in {buildCategoryData(tasks)} :
           /\ builtData' = <<[threw |-> built.threw, data |-> built.data]>>
           /\ objectTaskCount' = objectTaskCount \cup built.builtins
    /\ UNCHANGED <<storeVars, taskInput, categorySuggestions, suggested,
                   suggestCalls, simVars, kwVars, pageVars>>

NextBuild == CallBuildCategoryData

SpecBuild == InitBuild /\ [][NextBuild]_vars

(***************************************************************************)
(* The task and category store under the page's event handlers             *)
(***************************************************************************)
\* addTask: the task built from the form
NewTask(time, text, category) ==
    [id |-> time, text |-> text, priority |-> "medium",
     category |-> IF category = <<>> THEN Null ELSE category,
     completed |-> FALSE, createdAt |-> time]

\* addTask: a new category is pushed every time
pushesCategoryAlways(selected, newCat, categoryList) ==
    selected = NewOption /\ newCat # <<>>

\* addTask: category === '__new__', newCat is not empty and
\* !this.categories.includes(category)
pushesCategory(selected, newCat, categoryList) ==
    /\ selected = NewOption
    /\ newCat # <<>>
    /\ newCat \notin Range(categoryList)

\* addTask() on the form values inputValue, selected and newCategoryValue,
\* with Date.now() returning one of times: a new category is pushed and
\* saved before the text is validated
addTask(inputValue, selected, newCategoryValue, times) ==
    \E text \in {Trim(inputValue)}, newCat \in {Trim(newCategoryValue)} :
    \E category \in {IF selected = NewOption THEN newCat ELSE selected} :
    \E pushed \in {pushesCategory(selected, newCat, categories)} :
    \E categoryList \in {IF pushed THEN Append(categories, category)
                         ELSE categories} :
        /\ categories' = categoryList
        /\ IF validateTaskInput(text, tasks)
           THEN \E time \in times :
                \E taskSeq \in {<<NewTask(time, text, category)>> \o tasks} :
                    /\ tasks' = taskSeq
                    /\ storage' =
                          [storage EXCEPT
                              !.categories =
                                  IF pushed THEN saveCategories(categoryList)
                                  ELSE @,
                              !.tasks = saveTasks(taskSeq)]
                    /\ taskInput' = <<>>
                    /\ newCategoryInput' = <<>>
                    /\ categorySelect' = SetSelectValue(categoryList, category)
                    /\ taskList' = render(taskSeq, currentFilter, taskList)
                    /\ now' = time
           ELSE /\ storage' =
                      [storage EXCEPT
                          !.categories =
                              IF pushed THEN saveCategories(categoryList)
                              ELSE @]
                /\ taskInput' = inputValue
                /\ newCategoryInput' = newCategoryValue
                /\ categorySelect' = IF pushed THEN <<>> ELSE selected
                /\ UNCHANGED <<tasks, taskList, now>>

\* toggleTask(id): the first task with the id
toggleTask(taskSeq, id) ==
    IF \E i \in 1..Len(taskSeq) : taskSeq[i].id = id
    THEN LET first == CHOOSE i \in 1..Len(taskSeq) :
                          /\ taskSeq[i].id = id
                          /\ \A k \in 1..(i - 1) : taskSeq[k].id # id
         IN  [taskSeq EXCEPT ![first].completed = ~@]
    ELSE taskSeq

RECURSIVE ToggleCalls(_, _, _, _, _)
\* the checkbox's listeners in turn: toggleTask(id), saveTasks and render
\* once per listener
ToggleCalls(taskSeq, list, filter, id, listeners) ==
    IF listeners = 0 \/ ~ \E i \in 1..Len(taskSeq) : taskSeq[i].id = id
    THEN [tasks |-> taskSeq, list |-> list, saved |-> FALSE]
    ELSE LET toggled == toggleTask(taskSeq, id)
         IN  [ToggleCalls(toggled, render(toggled, filter, list), filter, id,
                          listeners - 1) EXCEPT !.saved = TRUE]

\* the listeners render() has put on the first element carrying the id
Listeners(list, id) ==
    Cardinality({i \in 1..Len(list.taskIds) : list.taskIds[i] = id})

\* deleteTask(id): tasks.filter(t => t.id !== id)
deleteTask(taskSeq, id) == SelectSeq(taskSeq, LAMBDA t : t.id # id)

\* deleteCategory with the tasks removed instead of uncategorized
uncategorizeCascading(taskSeq, category) ==
    SelectSeq(taskSeq, LAMBDA t : t.category # category)

\* deleteCategory: task.category = null on the tasks of the category
uncategorize(taskSeq, category) ==
    [i \in 1..Len(taskSeq) |->
        IF taskSeq[i].category = category
        THEN [taskSeq[i] EXCEPT !.category = Null]
        ELSE taskSeq[i]]

\* deleteCategory(category) with confirm() returning confirmed;
\* renderCategoryOptions rebuilds the options, which selects the first
deleteCategory(category, confirmed) ==
    IF ~confirmed
    THEN UNCHANGED <<tasks, categories, storage, categorySelect, taskList>>
    ELSE LET categoryList == SelectSeq(categories, LAMBDA c : c # category)
             taskSeq == uncategorize(tasks, category)
         IN  /\ categories' = categoryList
             /\ tasks' = taskSeq
             /\ storage' = [storage EXCEPT
                               !.categories = saveCategories(categoryList),
                               !.tasks = saveTasks(taskSeq)]
             /\ categorySelect' = <<>>
             /\ taskList' = render(taskSeq, currentFilter, taskList)

MaxNow == 1

wShoes == <<"s","h","o","e","s">>

\* what the user types into the task input before adding
TaskTexts == {wShoes, <<"S","h","o","p"," ">>}

\* what the user types into the new-category input
NewCategoryNames == {wShop, <<" ">> \o wWork}

Init ==
    /\ AppFresh
    /\ PageLoaded
    /\ SimIdle
    /\ KwIdle

\* the user fills in the form and clicks Add (or presses Enter); the new
\* category input takes text only while "+ New Category" is selected, and
\* leaving it empty resets the select on blur.  texts, names: what the user
\* may type into the task input and into the new-category input.
FillAndAddTask(texts, names) ==
    \E inputValue \in texts, selected \in Range(OptionValues(categories)) :
        \E newCategoryValue \in
              IF selected = NewOption THEN names ELSE {newCategoryInput} :
            /\ addTask(inputValue, selected, newCategoryValue, now..MaxNow)
            /\ lastCall' =
                  [op |-> "addTask",
                   category |-> IF selected = NewOption
                                THEN Trim(newCategoryValue) ELSE selected,
                   confirmed |-> validateTaskInput(Trim(inputValue), tasks),
                   selected |-> selected,
                   tasks |-> tasks, categories |-> categories]
            /\ UNCHANGED <<categorySuggestions, objectTaskCount, suggested,
                           suggestCalls, builtData, currentFilter,
                           currentTheme, timerVars, simVars, kwVars>>

ClickAddTask == FillAndAddTask(TaskTexts, NewCategoryNames)

\* the checkbox's change event with toggleTask not calling saveTasks
ClickCheckboxUnsaved ==
    /\ taskList.display = "block"
    /\ \E id \in Range(taskList.taskIds) :
        \E r \in {ToggleCalls(tasks, taskList, currentFilter, id,
                              Listeners(taskList, id))} :
            /\ tasks' = r.tasks
            /\ taskList' = r.list
            /\ storage' = storage
    /\ lastCall' = NoCall
    /\ UNCHANGED <<categories, panelVars, formVars, currentFilter,
                   currentTheme, now, timerVars, simVars, kwVars>>

\* a change event on the checkbox of a listed task
ClickCheckbox ==
    /\ taskList.display = "block"
    /\ \E id \in Range(taskList.taskIds) :
        \E r \in {ToggleCalls(tasks, taskList, currentFilter, id,
                              Listeners(taskList, id))} :
            /\ tasks' = r.tasks
            /\ taskList' = r.list
            /\ storage' = IF r.saved
                          THEN [storage EXCEPT !.tasks = saveTasks(r.tasks)]
                          ELSE storage
    /\ lastCall' = NoCall
    /\ UNCHANGED <<categories, panelVars, formVars, currentFilter,
                   currentTheme, now, timerVars, simVars, kwVars>>

\* a click on the Delete button of a listed task
ClickDeleteTask ==
    /\ taskList.display = "block"
    /\ \E id \in Range(taskList.taskIds) :
        \E taskSeq \in {deleteTask(tasks, id)} :
            /\ tasks' = taskSeq
            /\ storage' = [storage EXCEPT !.tasks = saveTasks(taskSeq)]
            /\ taskList' = render(taskSeq, currentFilter, taskList)
    /\ lastCall' = NoCall
    /\ UNCHANGED <<categories, panelVars, formVars, currentFilter,
                   currentTheme, now, timerVars, simVars, kwVars>>

\* a click on the Delete Category button of a listed category group
ClickDeleteCategory ==
    /\ taskList.display = "block"
    /\ \E category \in taskList.deleteCategory, confirmed \in BOOLEAN :
        /\ deleteCategory(category, confirmed)
        /\ lastCall' = [op |-> "deleteCategory", category |-> category,
                        confirmed |-> confirmed, selected |-> <<>>,
                        tasks |-> tasks, categories |-> categories]
    /\ UNCHANGED <<panelVars, newCategoryInput, currentFilter, currentTheme,
                   now, timerVars, simVars, kwVars>>

Next ==
    \/ ClickAddTask
    \/ ClickCheckbox
    \/ ClickDeleteTask
    \/ ClickDeleteCategory

Spec == Init /\ [][Next]_vars

(***************************************************************************)
(* The store across theme changes and page reloads, with a category name   *)
(* that holds a double quote                                               *)
(***************************************************************************)
\* the option values of themeSelect
Themes == {"default", "dark"}

wQuoted == <<"a", "\"", "b">>

\* what the user types into the new-category input
QuotedCategoryNames == {wShop, wQuoted}

\* what the user types into the task input before adding
QuotedTexts == {<<"s","a","y"," ","\"","h","i","\"">>}

ClickAddTaskQuoted == FillAndAddTask(QuotedTexts, QuotedCategoryNames)

\* a change of the theme select: changeTheme(theme)
SelectTheme ==
    /\ \E theme \in Themes :
        /\ currentTheme' = theme
        /\ storage' = [storage EXCEPT !.theme = <<theme>>]
    /\ lastCall' = NoCall
    /\ UNCHANGED <<tasks, categories, panelVars, formVars, currentFilter,
                   taskList, now, timerVars, simVars, kwVars>>

\* the page is loaded again: new TaskManager() on the stored entries, with
\* the form, the panel and the global objects of a fresh page and the
\* timers of the old one gone
Reload ==
    /\ tasks' = loadTasks(storage)
    /\ categories' = loadCategories(storage)
    /\ currentFilter' = "all"
    /\ currentTheme' = loadTheme(storage)
    /\ taskList' = render(loadTasks(storage), "all", EmptyTaskList)
    /\ categorySelect' = <<>>
    /\ newCategoryInput' = <<>>
    /\ taskInput' = <<>>
    /\ categorySuggestions' = [display |-> "", chips |-> <<>>]
    /\ objectTaskCount' = {}
    /\ lastCall' = [op |-> "reload", category |-> <<>>, confirmed |-> FALSE,
                    selected |-> <<>>, tasks |-> tasks,
                    categories |-> categories]
    /\ suggestionTimeout' = 0
    /\ timers' = {}
    /\ debounce' = NoInput
    /\ UNCHANGED <<storage, suggested, suggestCalls, builtData, now, timerIds,
                   simVars, kwVars>>

NextReload ==
    \/ ClickAddTaskQuoted
    \/ ClickCheckbox
    \/ ClickDeleteTask
    \/ ClickDeleteCategory
    \/ SelectTheme
    \/ Reload

SpecReload == Init /\ [][NextReload]_vars

\* the four operations on the store, with category names that hold a quote
NextQuoted ==
    \/ ClickAddTaskQuoted
    \/ ClickCheckbox
    \/ ClickDeleteTask
    \/ ClickDeleteCategory

SpecQuoted == Init /\ [][NextQuoted]_vars

(***************************************************************************)
(* The debounced input handler: typing, time passing, the timer's callback *)
(***************************************************************************)
MaxInputs == 3

\* what the task input holds after an input event
TypedTexts == {<<"s","h">>, wShoes, wWork}

\* the time that passes between two steps of the page, in milliseconds
Elapsed == {100, 200}

\* a store with two categories and one task, loaded into the page
InitDebounce ==
    /\ categories = <<wShop, wWorkCap>>
    /\ tasks = <<TaskPool[1]>>
    /\ storage = [tasks |-> saveTasks(tasks),
                  categories |-> saveCategories(categories),
                  theme |-> <<>>]
    /\ taskInput = <<>>
    /\ categorySuggestions = [display |-> "", chips |-> <<>>]
    /\ objectTaskCount = {}
    /\ suggested = <<>>
    /\ suggestCalls = 0
    /\ builtData = <<>>
    /\ SimIdle
    /\ KwIdle
    /\ PageLoaded
    /\ taskList = render(tasks, currentFilter, EmptyTaskList)

\* clearTimeout(id): the pending timers without the one of that id
clearTimeout(pending, id) == {t \in pending : t.id # id}

\* the input handler's timers without the call of clearTimeout
debounceNoClear(pending, id, newId) ==
    pending \cup {[id |-> newId, remaining |-> DebounceDelay]}

\* clearTimeout(this.suggestionTimeout); setTimeout(..., 300)
debounceTimers(pending, id, newId) ==
    clearTimeout(pending, id) \cup {[id |-> newId, remaining |-> DebounceDelay]}

\* the input event of the task input: the user has changed its text
InputEvent ==
    /\ timerIds < MaxInputs
    /\ \E value \in TypedTexts \ {taskInput} :
          taskInput' = value
    /\ timerIds' = timerIds + 1
    /\ timers' = debounceTimers(timers, suggestionTimeout, timerIds + 1)
    /\ suggestionTimeout' = timerIds + 1
    /\ debounce' =
          IF debounce.burst > 0 /\ debounce.sinceInput < DebounceDelay
          THEN [debounce EXCEPT !.sinceInput = 0, !.burst = @ + 1]
          ELSE [NoInput EXCEPT !.sinceInput = 0, !.burst = 1]
    /\ lastCall' = NoCall
    /\ UNCHANGED <<storeVars, categorySuggestions, objectTaskCount, suggested,
                   suggestCalls, builtData, formVars, viewVars, now, simVars,
                   kwVars>>

\* time passes: every pending timer comes closer to being due, and a timer
\* that is due may still be waiting for its turn
Tick ==
    /\ \E d \in Elapsed :
          /\ timers' = {[t EXCEPT !.remaining = IF @ > d THEN @ - d ELSE 0] :
                          t \in timers}
          /\ debounce' =
                [debounce EXCEPT !.sinceInput =
                    IF @ + d < DebounceDelay THEN @ + d ELSE DebounceDelay]
    /\ UNCHANGED <<storeVars, panelVars, formVars, viewVars, now, lastCall,
                   suggestionTimeout, timerIds, simVars, kwVars>>

\* the event loop takes a due timer off the list to run its callback
DueTimerRuns ==
    \E t \in timers :
        /\ t.remaining = 0
        /\ timers' = timers \ {t}

\* a due timer runs its callback: this.suggestCategories()
TimerFires ==
    /\ DueTimerRuns
    /\ suggestCalls' = suggestCalls + 1
    /\ suggestCategories
    /\ debounce' = [debounce EXCEPT !.calls = @ + 1,
                                    !.calledAfter = debounce.sinceInput]
    /\ lastCall' = NoCall
    /\ UNCHANGED <<builtData, formVars, viewVars, now, suggestionTimeout,
                   timerIds, simVars, kwVars>>

NextDebounce == InputEvent \/ Tick \/ TimerFires

\* time does pass, and the event loop does run a timer that is due; the
\* callback of TimerFires can always run, so a due timer is what enables it
SpecDebounce ==
    /\ InitDebounce
    /\ [][NextDebounce]_vars
    /\ WF_vars(Tick)
    /\ WF_timers(DueTimerRuns)

(***************************************************************************)
(* The suggestion panel next to the store: typing, the timer, chip clicks, *)
(* adding the typed task, deleting a category                              *)
(***************************************************************************)
\* a click on a chip of the visible panel: the chip's data-category goes
\* into the category select, and the panel is hidden
ClickChip ==
    /\ categorySuggestions.display = "block"
    /\ \E i \in 1..Len(categorySuggestions.chips) :
          categorySelect' =
              SetSelectValue(categories, categorySuggestions.chips[i].category)
    /\ categorySuggestions' = [categorySuggestions EXCEPT !.display = "none"]
    /\ lastCall' = NoCall
    /\ UNCHANGED <<storeVars, taskInput, objectTaskCount, suggested,
                   suggestCalls, builtData, newCategoryInput, viewVars, now,
                   timerVars, simVars, kwVars>>

\* a click on Add (or Enter) with the form as it stands: the typed text and
\* the category a chip has selected, if any
SubmitTyped ==
    /\ addTask(taskInput, categorySelect, newCategoryInput, now..MaxNow)
    /\ lastCall' =
          [op |-> "addTask", category |-> categorySelect,
           confirmed |-> validateTaskInput(Trim(taskInput), tasks),
           selected |-> categorySelect,
           tasks |-> tasks, categories |-> categories]
    /\ UNCHANGED <<categorySuggestions, objectTaskCount, suggested,
                   suggestCalls, builtData, currentFilter, currentTheme,
                   timerVars, simVars, kwVars>>

NextPanel ==
    \/ InputEvent
    \/ Tick
    \/ TimerFires
    \/ ClickChip
    \/ SubmitTyped
    \/ ClickDeleteCategory

SpecPanel == InitDebounce /\ [][NextPanel]_vars

(***************************************************************************)
(* Properties of calculateSimilarity (under SpecSim)                       *)
(***************************************************************************)
RECURSIVE Levenshtein(_, _)
\* the edit distance by its recursive definition
Levenshtein(a, b) ==
    IF a = <<>> THEN Len(b)
    ELSE IF b = <<>> THEN Len(a)
    ELSE IF Head(a) = Head(b) THEN Levenshtein(Tail(a), Tail(b))
    ELSE 1 + Min3(Levenshtein(Tail(a), b),
                  Levenshtein(a, Tail(b)),
                  Levenshtein(Tail(a), Tail(b)))

LongerLen(a, b) == IF Len(a) > Len(b) THEN Len(a) ELSE Len(b)

\* C4: calculateSimilarity(a, b) is (L - d) / L, with L the length of the
\* longer string and d the Levenshtein distance of a and b by its recursive
\* definition; it is 1 for two empty strings; it lies in [0, 1], and it is 0
\* when one string is empty and the other is not.
C4_SimilarityIsLevenshteinRatio ==
    similarity # <<>> =>
        LET r == similarity[1]
            L == LongerLen(str1, str2)
            d == Levenshtein(str1, str2)
        IN  /\ r.den > 0
            /\ 0 <= r.num /\ r.num <= r.den
            /\ IF L = 0
               THEN r.num = r.den
               ELSE r.num * L = (L - d) * r.den
            /\ (str1 = <<>> /\ str2 # <<>>) => r.num = 0

\* a call on two different non-empty strings of different lengths whose
\* similarity is strictly between 0 and 1
C4_Witness ==
    /\ similarity # <<>>
    /\ str1 # <<>> /\ str2 # <<>>
    /\ Len(str1) # Len(str2)
    /\ similarity[1].num > 0
    /\ similarity[1].num < similarity[1].den

\* C5: calculateSimilarity(a, b) = calculateSimilarity(b, a), also for two
\* strings of equal length.
C5_SimilaritySymmetric ==
    (similarity # <<>> /\ similaritySwapped # <<>>) =>
        similarity[1].num * similaritySwapped[1].den
            = similaritySwapped[1].num * similarity[1].den

\* both orders called on two different strings of equal length
C5_Witness ==
    /\ similarity # <<>> /\ similaritySwapped # <<>>
    /\ Len(str1) = Len(str2) /\ Len(str1) > 1
    /\ str1 # str2
    /\ similarity[1].num > 0

(***************************************************************************)
(* Properties of extractKeywords (under SpecKw)                            *)
(***************************************************************************)
IsAlnum(c) == c \in LowerLetters \cup Digits

\* the positions of text where a fragment starts: a character that is no
\* delimiter, at the start of the text or right after a delimiter
FragmentStarts(text) ==
    {i \in 1..Len(text) :
        text[i] \notin Delimiters /\ (i = 1 \/ text[i - 1] \in Delimiters)}

\* the fragment that starts at i runs up to the next delimiter or the end
FragmentAt(text, i) ==
    LET last == CHOOSE j \in i..Len(text) :
                    /\ \A k \in i..j : text[k] \notin Delimiters
                    /\ (j = Len(text) \/ text[j + 1] \in Delimiters)
    IN  SubSeq(text, i, last)

RECURSIVE WordsInOrder(_, _)
\* the stripped fragments starting at the positions of starts, by position
WordsInOrder(text, starts) ==
    IF starts = {} THEN <<>>
    ELSE LET first == CHOOSE i \in starts : \A k \in starts : i <= k
         IN  <<SelectSeq(FragmentAt(text, first), IsAlnum)>>
                 \o WordsInOrder(text, starts \ {first})

ExpectedKeywords(text) ==
    LET kept == {i \in FragmentStarts(text) :
                    LET w == SelectSeq(FragmentAt(text, i), IsAlnum)
                    IN  Len(w) > 2 /\ w \notin StopWords}
    IN  WordsInOrder(text, kept)

\* C6: extractKeywords returns the fragments between runs of delimiters,
\* each stripped to [a-z0-9], those longer than 2 that are no stop words, in
\* input order, a repeated word once per occurrence; the empty text and a
\* text of stop words give the empty sequence.
C6_ExtractKeywords ==
    kwResult # <<>> =>
        /\ kwResult[1] = ExpectedKeywords(kwText)
        /\ kwText = <<>> => kwResult[1] = <<>>
        /\ kwText = <<"t","h","e"," ","t","h","e">> => kwResult[1] = <<>>

\* a text with a character that is stripped and the same keyword twice
C6_Witness ==
    /\ kwResult # <<>>
    /\ \E i \in 1..Len(kwText) : kwText[i] = "#"
    /\ \E i \in 1..Len(kwText) : kwText[i] \in Delimiters
    /\ Len(kwResult[1]) = 2
    /\ kwResult[1][1] = kwResult[1][2]

(***************************************************************************)
(* Properties of suggestCategories (under SpecSuggest)                     *)
(***************************************************************************)
\* text of the last call: taskInput.value trimmed and lower-cased
InputLower == ToLowerCase(Trim(taskInput))

Strong(score) == ~score.nan /\ score.units > 2 * ScoreScale

\* the place in this.categories of the category of a scored entry
PlaceOf(entry) ==
    CHOOSE k \in 1..Len(categories) : categories[k] = entry.category

\* entry a is ranked before entry b: a higher score, or the same score and an
\* earlier place in the category list
RankedBefore(a, b) ==
    \/ a.score.units > b.score.units
    \/ a.score.units = b.score.units /\ PlaceOf(a) < PlaceOf(b)

\* C1: the suggestions are the first 4 of the scores with raw score > 2 in
\* descending order of raw score, equal scores in category-list order: at
\* most 4 entries, none with raw score <= 2, scores non-increasing.
C1_TopFourStrongDescending ==
    suggested # <<>> =>
        LET sg == suggested[1].suggestions
            sc == suggested[1].scores
        IN  /\ Len(sg) <= 4
            /\ \A i \in 1..Len(sg) : Strong(sg[i].score)
            /\ \A i \in 1..Len(sg) : \E k \in 1..Len(sc) : sc[k] = sg[i]
            /\ \A i, j \in 1..Len(sg) :
                   i < j => /\ sg[i].score.units >= sg[j].score.units
                            /\ RankedBefore(sg[i], sg[j])
            /\ \A k \in 1..Len(sc) :
                   (Strong(sc[k].score) /\ sc[k] \notin Range(sg)) =>
                       /\ Len(sg) = 4
                       /\ RankedBefore(sg[4], sc[k])

\* six categories scored: five with raw score > 2, two of them equal, and one
\* with a raw score that is not zero and not above 2
C1_Witness ==
    /\ suggested # <<>>
    /\ Len(suggested[1].scores) = 6
    /\ Len(suggested[1].suggestions) = 4
    /\ Cardinality({k \in 1..6 : Strong(suggested[1].scores[k].score)}) = 5
    /\ suggested[1].suggestions[1].score = suggested[1].suggestions[2].score
    /\ \E k \in 1..6 :
           /\ suggested[1].scores[k].score.units > 0
           /\ ~Strong(suggested[1].scores[k].score)

\* C2: a category whose lower-cased name is the trimmed, lower-cased input
\* (3 characters or more) is scored with raw score >= 50, confidence 100 and
\* the tag "exact match", whatever the tasks are.
C2_ExactMatchFullConfidence ==
    (suggested # <<>> /\ suggested[1].outcome # "throw") =>
        \A i \in 1..Len(categories) :
            (Len(InputLower) >= 3 /\ InputLower = ToLowerCase(categories[i]))
            => /\ ~suggested[1].scores[i].score.nan
               /\ suggested[1].scores[i].score.units >= 50 * ScoreScale
               /\ suggested[1].scores[i].confidence = Num(100)
               /\ Tag("exact match") \in Range(suggested[1].scores[i].matches)

\* C3: a trimmed, lower-cased input shorter than 3, or an empty category
\* list, gives no suggestions and a hidden panel, for any tasks.
C3_EarlyExit ==
    (suggested # <<>> /\ (Len(InputLower) < 3 \/ categories = <<>>)) =>
        /\ suggested[1].outcome = "hide"
        /\ suggested[1].suggestions = <<>>
        /\ categorySuggestions.display = "none"

\* a call on an input of 3 characters or more that trims to fewer than 3,
\* with categories and tasks stored
C3_Witness ==
    /\ suggested # <<>>
    /\ Len(taskInput) >= 3
    /\ Len(InputLower) < 3
    /\ Len(categories) > 1
    /\ tasks # <<>>

\* C8: no call of the suggestion pipeline throws: every call ends with a
\* (possibly empty) suggestion list.
C8_NeverThrows == suggested # <<>> => suggested[1].outcome # "throw"

\* C9: suggestCategories changes neither the tasks, the categories nor the
\* stored data, and a second call on the same tasks, categories and input
\* gives the same suggestions and the same panel as the first.
C9_Idempotent ==
    [][suggestCalls' = suggestCalls + 1 =>
          /\ tasks' = tasks
          /\ categories' = categories
          /\ storage' = storage
          /\ suggestCalls >= 1 =>
                /\ suggested' = suggested
                /\ categorySuggestions' = categorySuggestions]_vars

\* two calls made, with suggestions shown, on stored tasks
C9_Witness ==
    /\ suggestCalls = 2
    /\ suggested[1].outcome = "show"
    /\ Len(suggested[1].suggestions) > 1
    /\ tasks # <<>>

(***************************************************************************)
(* Properties of buildCategoryData (under SpecBuild)                       *)
(***************************************************************************)
\* how often w occurs in the sequence words
Occurrences(words, w) == Cardinality({i \in 1..Len(words) : words[i] = w})

TasksOf(c) == {i \in 1..Len(tasks) : tasks[i].category = c}

RECURSIVE SumOccurrences(_, _)
SumOccurrences(indices, w) ==
    IF indices = {} THEN 0
    ELSE LET i == CHOOSE k \in indices : TRUE
         IN  Occurrences(extractKeywords(ToLowerCase(tasks[i].text)), w)
                 + SumOccurrences(indices \ {i}, w)

\* C7: buildCategoryData returns a mapping whose keys are the categories of
\* the tasks with a category; taskCount is the number of tasks of the key,
\* and keywords[w] the number of occurrences of w in the keywords of their
\* lower-cased texts.
C7_ProfilesCountTasksAndWords ==
    builtData # <<>> =>
        LET data == builtData[1].data
        IN  /\ ~builtData[1].threw
            /\ DOMAIN data =
                   {tasks[i].category : i \in 1..Len(tasks)} \ {Null}
            /\ \A c \in DOMAIN data :
                   /\ data[c].taskCount = Cardinality(TasksOf(c))
                   /\ \A w \in DOMAIN data[c].keywords :
                          data[c].keywords[w]
                              = Count(SumOccurrences(TasksOf(c), w))
                   /\ \A i \in TasksOf(c) :
                          Range(extractKeywords(ToLowerCase(tasks[i].text)))
                              \subseteq DOMAIN data[c].keywords

(***************************************************************************)
(* deleteCategory                                                          *)
(***************************************************************************)
\* C10: a confirmed deleteCategory(c) removes c from the category list and
\* sets category to null on every task that referenced c; no task is
\* removed, the tasks keep their order and every other field, and the tasks
\* of other categories keep their category.  A declined deleteCategory(c)
\* leaves tasks and categories as they were.
C10_DeleteCategoryFrame ==
    lastCall.op = "deleteCategory" =>
        IF lastCall.confirmed
        THEN /\ lastCall.category \notin Range(categories)
             /\ categories = SelectSeq(lastCall.categories,
                                       LAMBDA c : c # lastCall.category)
             /\ Len(tasks) = Len(lastCall.tasks)
             /\ \A i \in 1..Len(lastCall.tasks) :
                    /\ tasks[i].id = lastCall.tasks[i].id
                    /\ tasks[i].text = lastCall.tasks[i].text
                    /\ tasks[i].priority = lastCall.tasks[i].priority
                    /\ tasks[i].completed = lastCall.tasks[i].completed
                    /\ tasks[i].createdAt = lastCall.tasks[i].createdAt
                    /\ tasks[i].category =
                          IF lastCall.tasks[i].category = lastCall.category
                          THEN Null
                          ELSE lastCall.tasks[i].category
        ELSE /\ tasks = lastCall.tasks
             /\ categories = lastCall.categories

\* a confirmed deleteCategory(c) that found a task of c and, before it in
\* the list, a task of another category, with c not the last category
C10_Witness ==
    /\ lastCall.op = "deleteCategory"
    /\ lastCall.confirmed
    /\ Len(lastCall.categories) >= 2
    /\ lastCall.categories[1] = lastCall.category
    /\ \E i, k \in 1..Len(lastCall.tasks) :
          /\ i < k
          /\ lastCall.tasks[k].category = lastCall.category
          /\ lastCall.tasks[i].category \notin {Null, lastCall.category}
          /\ tasks[i].category = lastCall.tasks[i].category
          /\ tasks[k].category = Null

(***************************************************************************)
(* The category list                                                       *)
(***************************************************************************)
\* C11: from the empty store, after any addTask (existing, new or no
\* category), toggleTask, deleteTask and deleteCategory, no name is in the
\* category list twice (names compared as they are, case included).
C11_CategoriesUnique ==
    \A i, k \in 1..Len(categories) : i # k => categories[i] # categories[k]

\* an accepted addTask whose new category was already in a list of two
C11_Witness ==
    /\ lastCall.op = "addTask"
    /\ lastCall.confirmed
    /\ lastCall.selected = NewOption
    /\ Len(lastCall.categories) = 2
    /\ lastCall.category = lastCall.categories[1]
    /\ categories = lastCall.categories

(***************************************************************************)
(* Task ids                                                                *)
(***************************************************************************)
\* C12: after any accepted addTask calls no two tasks in the store have the
\* same id (so that toggleTask(id) and deleteTask(id) affect one task).
C12_IdsUnique ==
    \A i, k \in 1..Len(tasks) : i # k => tasks[i].id # tasks[k].id

(***************************************************************************)
(* Persistence                                                             *)
(***************************************************************************)
\* C13: after every operation (addTask, toggleTask, deleteTask,
\* deleteCategory, changeTheme) loading the stored 'tasks', 'categories' and
\* 'theme' entries gives the task list, the category list and the theme in
\* memory, and a page reload therefore finds the tasks and categories it
\* left.
C13_StoredIsInMemory ==
    /\ loadTasks(storage) = tasks
    /\ loadCategories(storage) = categories
    /\ loadTheme(storage) = currentTheme
    /\ lastCall.op = "reload" =>
          /\ tasks = lastCall.tasks
          /\ categories = lastCall.categories

\* a reload that found a theme chosen, two categories and a completed
\* task of a category with a double quote in its name
C13_Witness ==
    /\ lastCall.op = "reload"
    /\ currentTheme = "dark"
    /\ Len(categories) = 2
    /\ \E i \in 1..Len(tasks) :
          tasks[i].completed /\ tasks[i].category = wQuoted

(***************************************************************************)
(* calculateKeywordUniqueness inside suggestCategories                     *)
(***************************************************************************)
\* the calculateKeywordUniqueness calls of the suggestCategories call made
\* on the current input, categories and tasks
CallsMade ==
    UniquenessCalls(ToLowerCase(Trim(taskInput)),
                    extractKeywords(ToLowerCase(Trim(taskInput))),
                    categories, buildCategoryData(tasks))

\* C14: in every calculateKeywordUniqueness call made by suggestCategories
\* at least one category's keyword table holds the keyword, so that the
\* branch for no category (return 1) is not taken.
C14_UniquenessCountPositive ==
    suggested # <<>> =>
        \A call \in CallsMade : call.categoriesWithKeyword >= 1

C16_RejectedAddTaskChangesNothing ==
    [][(lastCall'.op = "addTask" /\ ~lastCall'.confirmed)
          => UNCHANGED <<tasks, categories, storage>>]_vars

(***************************************************************************)
(* Properties of the tasks' category references (under SpecQuoted)         *)
(***************************************************************************)
\* C17: from an empty store, after any addTask, toggleTask, deleteTask and
\* deleteCategory calls, the category of every task is null or a name that
\* the category list holds.
C17_TaskCategoriesListed ==
    \A i \in 1..Len(tasks) :
        tasks[i].category \in {Null} \cup Range(categories)

(***************************************************************************)
(* Properties of the suggestion panel (under SpecPanel)                    *)
(***************************************************************************)
\* C18: whenever the suggestion panel is visible, every chip in it names a
\* category that the category list holds, whatever the order of input
\* events, timer callbacks, addTask, deleteCategory and chip clicks.
C18_VisibleChipsNameCategories ==
    categorySuggestions.display = "block" =>
        \A i \in 1..Len(categorySuggestions.chips) :
            categorySuggestions.chips[i].label \in Range(categories)


=============================================================================
